---------------------------- MODULE Spec2Model ----------------------------
(***************************************************************************)
(* A model of core/tx_list.go of go-ethereum: the nonce-sorted map          *)
(* (txSortedMap), the per-account list (txList), the price heap            *)
(* (txPricedList) and the transaction journal (txJournal).                 *)
(*                                                                         *)
(* Go slices are 0-based; the sequences below are 1-based, so At(s, i) is  *)
(* the Go expression s[i].  A nil *types.Transaction is the record nil.    *)
(***************************************************************************)
EXTENDS Integers, Sequences, FiniteSets, TLC

\* ------------------------------------------------------------------ bounds

\* The nonces of the transactions put into a bare txSortedMap: 1..MaxNonce.
MaxNonce == 4
\* The nonces of the transactions added to a txList: 1..MaxListNonce.
MaxListNonce == 3
\* The nonces of the transactions of the replacement runs: 1..MaxAddNonce.
MaxAddNonce == 2
\* Price bump percentages range over 0..MaxBump.
MaxBump == 10
\* The price heap holds at most MaxHeap entries.
MaxHeap == 3
\* The runs of the price heap keep stales at or above -MaxStale.
MaxStale == 1
\* Discard is called with the counts 0..MaxCount.
MaxCount == 2
MaxPoolHeap == 5
\* The first journalled account holds the nonces 1..k, k in 0..MaxJournalNonce.
MaxJournalNonce == 2
\* insert appends to a journal file while it holds fewer records than this.
MaxEntries == 2
\* load hands a batch to add when it holds more than BatchLimit
\* transactions: 1024 in the source, scaled to the journals of this model.
BatchLimit == 1

\* ------------------------------------------------------------ transactions

\* types.Transaction as this file reads it: Nonce(), GasPrice(), Gas(),
\* Cost() and the sender that accountSet.containsTx looks at.  The record
\* is the transaction's identity (its Hash()).
Tx(n, p, g, c, a) == [nonce |-> n, gasPrice |-> p, gas |-> g, cost |-> c, from |-> a]

\* The nil transaction pointer.
nil == Tx(-1, 0, 0, 0, 0)

\* A nil slice and a non-nil one (which may be empty), as m.cache is.
NilSlice == [isNil |-> TRUE, txs |-> <<>>]
Slice(s) == [isNil |-> FALSE, txs |-> s]

Range(s) == {s[i] : i \in 1..Len(s)}

\* Every order in which a Go map iteration may visit the elements of S.
RECURSIVE Perms(_)
Perms(S) ==
    IF S = {} THEN {<<>>}
    ELSE UNION {{<<x>> \o p : p \in Perms(S \ {x})} : x \in S}

\* --------------------------------------------------------- container/heap

At(s, i) == s[i + 1]

Swap(h, i, j) == [h EXCEPT ![i + 1] = h[j + 1], ![j + 1] = h[i + 1]]

nonceHeap_Less(h, i, j) == At(h, i) < At(h, j)

priceHeap_Less(h, i, j) ==
    IF At(h, i).gasPrice < At(h, j).gasPrice THEN TRUE
    ELSE IF At(h, i).gasPrice > At(h, j).gasPrice THEN FALSE
    ELSE At(h, i).nonce > At(h, j).nonce

\* h.Less(i, j) of the heap.Interface: kind names the implementation.
Less(kind, h, i, j) ==
    IF kind = "nonce" THEN nonceHeap_Less(h, i, j) ELSE priceHeap_Less(h, i, j)

RECURSIVE up(_, _, _)
up(kind, h, j) ==
    LET i == IF j = 0 THEN 0 ELSE (j - 1) \div 2
    IN  IF i = j \/ ~Less(kind, h, j, i) THEN h
        ELSE up(kind, Swap(h, i, j), i)

RECURSIVE down(_, _, _, _)
down(kind, h, i, n) ==
    LET j1 == 2 * i + 1
    IN  IF j1 >= n THEN h
        ELSE LET j2 == j1 + 1
                 j  == IF j2 < n /\ Less(kind, h, j2, j1) THEN j2 ELSE j1
             IN  IF ~Less(kind, h, j, i) THEN h
                 ELSE down(kind, Swap(h, i, j), j, n)

RECURSIVE heapInitFrom(_, _, _)
heapInitFrom(kind, h, i) ==
    IF i < 0 THEN h ELSE heapInitFrom(kind, down(kind, h, i, Len(h)), i - 1)

heap_Init(kind, h) == heapInitFrom(kind, h, (Len(h) \div 2) - 1)

heap_Push(kind, h, x) == up(kind, Append(h, x), Len(h))

\* heap.Pop: the popped element and the heap left.
heap_Pop(kind, h) ==
    LET n  == Len(h) - 1
        h2 == down(kind, Swap(h, 0, n), 0, n)
    IN  [x |-> At(h2, n), h |-> SubSeq(h2, 1, n)]

\* heap.Remove(h, i): down, and up when down did not move the element.
heap_Remove(kind, h, i) ==
    LET n  == Len(h) - 1
        h1 == Swap(h, i, n)
        h2 == down(kind, h1, i, n)
        h3 == IF h2 = h1 THEN up(kind, SubSeq(h1, 1, n), i) ELSE SubSeq(h2, 1, n)
    IN  IF n # i THEN h3 ELSE SubSeq(h, 1, n)

\* sort_Sort that leaves the slice as it is.
sort_Sort_unsorted(s) == s

\* sort.Sort over a slice of distinct nonces: the ascending order.
RECURSIVE sort_Sort(_)
sort_Sort(s) ==
    IF Len(s) = 0 THEN <<>>
    ELSE LET lo == CHOOSE i \in 1..Len(s) : \A j \in 1..Len(s) : s[i] <= s[j]
         IN  <<s[lo]>> \o sort_Sort(SubSeq(s, 1, lo - 1) \o SubSeq(s, lo + 1, Len(s)))

\* ------------------------------------------------------------ txSortedMap

\* A txSortedMap value: items is a function from the stored nonces to their
\* transactions, index the nonceHeap, cache nil or the sorted transactions.
SortedMap(it, ix, ca) == [items |-> it, index |-> ix, cache |-> ca]

newTxSortedMap == SortedMap(<<>>, <<>>, NilSlice)

\* m.items[nonce]: nil when the key is absent.
Lookup(it, nonce) == IF nonce \in DOMAIN it THEN it[nonce] ELSE nil

\* delete(m.items, nonce)
Delete(it, nonce) == [k \in DOMAIN it \ {nonce} |-> it[k]]

Stored(it) == {it[k] : k \in DOMAIN it}

txSortedMap_Get(m, nonce) == Lookup(m.items, nonce)

\* Put that pushes the nonce whether or not it is stored already.
txSortedMap_Put_pushAlways(m, tx) ==
    SortedMap([k \in DOMAIN m.items \cup {tx.nonce} |->
                    IF k = tx.nonce THEN tx ELSE m.items[k]],
              heap_Push("nonce", m.index, tx.nonce),
              NilSlice)

txSortedMap_Put(m, tx) ==
    SortedMap([k \in DOMAIN m.items \cup {tx.nonce} |->
                    IF k = tx.nonce THEN tx ELSE m.items[k]],
              IF Lookup(m.items, tx.nonce) = nil
                  THEN heap_Push("nonce", m.index, tx.nonce) ELSE m.index,
              NilSlice)

\* ForwardLoop with the threshold itself popped too (<= for <).
RECURSIVE ForwardLoop_inclusive(_, _, _)
ForwardLoop_inclusive(m, threshold, removed) ==
    IF Len(m.index) > 0 /\ At(m.index, 0) <= threshold
    THEN LET p == heap_Pop("nonce", m.index)
         IN  ForwardLoop_inclusive(SortedMap(Delete(m.items, p.x), p.h, m.cache),
                                   threshold, Append(removed, Lookup(m.items, p.x)))
    ELSE [m |-> m, ret |-> removed]

\* The loop of Forward: the map left and the removed transactions.
RECURSIVE ForwardLoop(_, _, _)
ForwardLoop(m, threshold, removed) ==
    IF Len(m.index) > 0 /\ At(m.index, 0) < threshold
    THEN LET p == heap_Pop("nonce", m.index)
         IN  ForwardLoop(SortedMap(Delete(m.items, p.x), p.h, m.cache), threshold,
                         Append(removed, Lookup(m.items, p.x)))
    ELSE [m |-> m, ret |-> removed]

\* Forward that leaves the cache as it is.
txSortedMap_Forward_keepCache(m, threshold) ==
    LET r == ForwardLoop(m, threshold, <<>>)
    IN  [m |-> SortedMap(r.m.items, r.m.index, m.cache), ret |-> r.ret]

txSortedMap_Forward(m, threshold) ==
    LET r == ForwardLoop(m, threshold, <<>>)
    IN  [m |-> SortedMap(r.m.items, r.m.index,
                         IF ~m.cache.isNil
                         THEN Slice(SubSeq(m.cache.txs, Len(r.ret) + 1, Len(m.cache.txs)))
                         ELSE m.cache),
         ret |-> r.ret]

\* Filter, for a filter function that holds of the transactions in F: every
\* outcome the two map iterations (collecting, then rebuilding the index)
\* can produce.  The order in which a map iteration appends to removed is
\* unspecified: removed is the set of the slice's elements.
txSortedMap_Filter(m, F) ==
    LET hit  == {k \in DOMAIN m.items : m.items[k] \in F}
        left == [k \in DOMAIN m.items \ hit |-> m.items[k]]
    IN  IF hit = {} THEN {[m |-> m, removed |-> {}]}
        ELSE {[m |-> SortedMap(left, heap_Init("nonce", ix), NilSlice),
               removed |-> {m.items[k] : k \in hit}] : ix \in Perms(DOMAIN left)}

\* CapLoop that puts each drop in front of the earlier ones.
RECURSIVE CapLoop_ascending(_, _, _, _, _)
CapLoop_ascending(it, sorted, size, threshold, drops) ==
    IF size > threshold
    THEN CapLoop_ascending(Delete(it, At(sorted, size - 1)), sorted, size - 1, threshold,
                           <<Lookup(it, At(sorted, size - 1))>> \o drops)
    ELSE [items |-> it, ret |-> drops]

\* The loop of Cap over the sorted index: the items left and the drops.
RECURSIVE CapLoop(_, _, _, _, _)
CapLoop(it, sorted, size, threshold, drops) ==
    IF size > threshold
    THEN CapLoop(Delete(it, At(sorted, size - 1)), sorted, size - 1, threshold,
                 Append(drops, Lookup(it, At(sorted, size - 1))))
    ELSE [items |-> it, ret |-> drops]

txSortedMap_Cap(m, threshold) ==
    IF Cardinality(DOMAIN m.items) <= threshold THEN [m |-> m, ret |-> <<>>]
    ELSE LET sorted == sort_Sort(m.index)
             r == CapLoop(m.items, sorted, Cardinality(DOMAIN m.items), threshold, <<>>)
         IN  [m |-> SortedMap(r.items,
                              heap_Init("nonce", SubSeq(sorted, 1, threshold)),
                              IF ~m.cache.isNil
                              THEN Slice(SubSeq(m.cache.txs, 1,
                                                Len(m.cache.txs) - Len(r.ret)))
                              ELSE m.cache),
              ret |-> r.ret]

txSortedMap_Remove(m, nonce) ==
    IF nonce \notin DOMAIN m.items THEN [m |-> m, ok |-> FALSE]
    ELSE LET at == {i \in 0..(Len(m.index) - 1) : At(m.index, i) = nonce}
             first == CHOOSE i \in at : \A j \in at : i <= j
         IN  [m |-> SortedMap(Delete(m.items, nonce),
                              IF at = {} THEN m.index
                              ELSE heap_Remove("nonce", m.index, first),
                              NilSlice),
              ok |-> TRUE]

\* ReadyLoop that does not stop at a gap: it pops whatever is lowest.
RECURSIVE ReadyLoop_nogap(_, _, _)
ReadyLoop_nogap(m, next, ready) ==
    IF Len(m.index) > 0
    THEN LET p == heap_Pop("nonce", m.index)
         IN  ReadyLoop_nogap(SortedMap(Delete(m.items, p.x), p.h, m.cache),
                             next + 1, Append(ready, Lookup(m.items, p.x)))
    ELSE [m |-> m, ret |-> ready]

\* The loop of Ready.
RECURSIVE ReadyLoop(_, _, _)
ReadyLoop(m, next, ready) ==
    IF Len(m.index) > 0 /\ At(m.index, 0) = next
    THEN ReadyLoop(SortedMap(Delete(m.items, next), heap_Pop("nonce", m.index).h, m.cache),
                   next + 1, Append(ready, Lookup(m.items, next)))
    ELSE [m |-> m, ret |-> ready]

txSortedMap_Ready(m, start) ==
    IF Len(m.index) = 0 \/ At(m.index, 0) > start THEN [m |-> m, ret |-> <<>>]
    ELSE LET r == ReadyLoop(m, At(m.index, 0), <<>>)
         IN  [m |-> SortedMap(r.m.items, r.m.index, NilSlice), ret |-> r.ret]

txSortedMap_Len(m) == Cardinality(DOMAIN m.items)

\* sort.Sort(types.TxByNonce(...)) over the stored transactions, whose
\* nonces differ: ascending by nonce.
RECURSIVE TxByNonce(_)
TxByNonce(S) ==
    IF S = {} THEN <<>>
    ELSE LET lo == CHOOSE t \in S : \A u \in S : t.nonce <= u.nonce
         IN  <<lo>> \o TxByNonce(S \ {lo})

txSortedMap_Flatten(m) ==
    LET c == IF m.cache.isNil THEN Slice(TxByNonce(Stored(m.items))) ELSE m.cache
    IN  [m |-> SortedMap(m.items, m.index, c), ret |-> c.txs]


\* ----------------------------------------------------------------- txList

\* A txList value.
List(st, m, cc, gc) == [strict |-> st, txs |-> m, costcap |-> cc, gascap |-> gc]

newTxList(st) == List(st, newTxSortedMap, 0, 0)

txList_Overlaps(l, tx) == txSortedMap_Get(l.txs, tx.nonce) # nil

\* AddThreshold with the bump alone as the percentage (bump for 100 + bump).
AddThreshold_bumpOnly(old, priceBump) == (old.gasPrice * priceBump) \div 100

\* The threshold Add computes for a stored transaction old.
AddThreshold(old, priceBump) == (old.gasPrice * (100 + priceBump)) \div 100

\* AddRejects with the percentage test alone.
AddRejects_percentOnly(old, tx, priceBump) ==
    AddThreshold(old, priceBump) > tx.gasPrice

\* Whether Add turns tx down because of the stored transaction old.
AddRejects(old, tx, priceBump) ==
    old.gasPrice >= tx.gasPrice \/ AddThreshold(old, priceBump) > tx.gasPrice

\* txList_Add that leaves gascap as it is.
txList_Add_keepCostcap(l, tx, priceBump) ==
    LET old == txSortedMap_Get(l.txs, tx.nonce)
    IN  IF old # nil /\ AddRejects(old, tx, priceBump)
        THEN [l |-> l, ok |-> FALSE, old |-> nil]
        ELSE [l |-> List(l.strict, txSortedMap_Put(l.txs, tx),
                         l.costcap,
                         IF l.gascap < tx.gas THEN tx.gas ELSE l.gascap),
              ok |-> TRUE, old |-> old]

txList_Add_keepGascap(l, tx, priceBump) ==
    LET old == txSortedMap_Get(l.txs, tx.nonce)
    IN  IF old # nil /\ AddRejects(old, tx, priceBump)
        THEN [l |-> l, ok |-> FALSE, old |-> nil]
        ELSE [l |-> List(l.strict, txSortedMap_Put(l.txs, tx),
                         IF l.costcap < tx.cost THEN tx.cost ELSE l.costcap,
                         l.gascap),
              ok |-> TRUE, old |-> old]

txList_Add(l, tx, priceBump) ==
    LET old == txSortedMap_Get(l.txs, tx.nonce)
    IN  IF old # nil /\ AddRejects(old, tx, priceBump)
        THEN [l |-> l, ok |-> FALSE, old |-> nil]
        ELSE [l |-> List(l.strict, txSortedMap_Put(l.txs, tx),
                         IF l.costcap < tx.cost THEN tx.cost ELSE l.costcap,
                         IF l.gascap < tx.gas THEN tx.gas ELSE l.gascap),
              ok |-> TRUE, old |-> old]

txList_Forward(l, threshold) ==
    LET r == txSortedMap_Forward(l.txs, threshold)
    IN  [l |-> List(l.strict, r.m, l.costcap, l.gascap), ret |-> r.ret]

\* The filter function Filter hands to the map: the transactions above a limit.
OverLimit(S, costLimit, gasLimit) == {tx \in S : tx.cost > costLimit \/ tx.gas > gasLimit}

\* Lowest that takes the highest nonce instead.
Lowest_highest(removed) ==
    CHOOSE n \in {tx.nonce : tx \in removed} : \A tx \in removed : n >= tx.nonce

\* The lowest nonce among the removed transactions.
Lowest(removed) ==
    CHOOSE n \in {tx.nonce : tx \in removed} : \A tx \in removed : n <= tx.nonce

\* The strict-mode pass of Filter and Remove: the stored transactions above nonce.
AboveNonce(S, nonce) == {tx \in S : tx.nonce > nonce}

\* Every outcome of Filter (the map iterations choose the orders).
\* Filter that removes only the lowest transaction over a limit, invalidates
\* nothing and leaves the caps as they are.
txList_Filter_lowestOnly(l, costLimit, gasLimit) ==
    IF l.costcap <= costLimit /\ l.gascap <= gasLimit
    THEN {[l |-> l, removed |-> {}, invalids |-> {}]}
    ELSE LET over == OverLimit(Stored(l.txs.items), costLimit, gasLimit)
             one == {t \in over : t.nonce = Lowest(over)}
         IN  {[l |-> List(l.strict, r.m, l.costcap, l.gascap),
               removed |-> r.removed, invalids |-> {}] :
                  r \in txSortedMap_Filter(l.txs, one)}

txList_Filter(l, costLimit, gasLimit) ==
    IF l.costcap <= costLimit /\ l.gascap <= gasLimit
    THEN {[l |-> l, removed |-> {}, invalids |-> {}]}
    ELSE UNION {
           IF l.strict /\ r.removed # {}
           THEN {[l |-> List(l.strict, r2.m, costLimit, gasLimit),
                  removed |-> r.removed, invalids |-> r2.removed] :
                     r2 \in txSortedMap_Filter(r.m,
                                AboveNonce(Stored(r.m.items), Lowest(r.removed)))}
           ELSE {[l |-> List(l.strict, r.m, costLimit, gasLimit),
                  removed |-> r.removed, invalids |-> {}]} :
           r \in txSortedMap_Filter(l.txs,
                    OverLimit(Stored(l.txs.items), costLimit, gasLimit))}

txList_Cap(l, threshold) ==
    LET r == txSortedMap_Cap(l.txs, threshold)
    IN  [l |-> List(l.strict, r.m, l.costcap, l.gascap), ret |-> r.ret]

\* Remove that invalidates nothing, strict or not.
txList_Remove_noInvalidate(l, tx) ==
    LET r == txSortedMap_Remove(l.txs, tx.nonce)
    IN  IF ~r.ok THEN {[l |-> l, ok |-> FALSE, invalids |-> {}]}
        ELSE {[l |-> List(l.strict, r.m, l.costcap, l.gascap),
               ok |-> TRUE, invalids |-> {}]}

\* Every outcome of Remove.
txList_Remove(l, tx) ==
    LET r == txSortedMap_Remove(l.txs, tx.nonce)
    IN  IF ~r.ok THEN {[l |-> l, ok |-> FALSE, invalids |-> {}]}
        ELSE IF l.strict
        THEN {[l |-> List(l.strict, r2.m, l.costcap, l.gascap),
               ok |-> TRUE, invalids |-> r2.removed] :
                  r2 \in txSortedMap_Filter(r.m, AboveNonce(Stored(r.m.items), tx.nonce))}
        ELSE {[l |-> List(l.strict, r.m, l.costcap, l.gascap),
               ok |-> TRUE, invalids |-> {}]}

txList_Ready(l, start) ==
    LET r == txSortedMap_Ready(l.txs, start)
    IN  [l |-> List(l.strict, r.m, l.costcap, l.gascap), ret |-> r.ret]

txList_Len(l) == txSortedMap_Len(l.txs)

txList_Empty(l) == txList_Len(l) = 0

txList_Flatten(l) ==
    LET r == txSortedMap_Flatten(l.txs)
    IN  [l |-> List(l.strict, r.m, l.costcap, l.gascap), ret |-> r.ret]


\* ----------------------------------------------------------- txPricedList

\* A txPricedList value: all is the pool's map of all transactions (the set
\* of the transactions whose hash is a key), items the priceHeap.
PricedList(al, it, st) == [all |-> al, items |-> it, stales |-> st]

newTxPricedList(al) == PricedList(al, <<>>, 0)

\* local.containsTx(tx): local is the set of the accounts of the accountSet.
containsTx(local, tx) == tx.from \in local

txPricedList_Put(p, tx) == PricedList(p.all, heap_Push("price", p.items, tx), p.stales)

\* Every outcome of Removed (the map iteration chooses the order the new
\* heap is filled in).
\* Removed that counts and never rebuilds.
txPricedList_Removed_noRebuild(p) == {PricedList(p.all, p.items, p.stales + 1)}

\* Removed that rebuilds without resetting the counter.
txPricedList_Removed_keepStales(p) ==
    IF p.stales + 1 <= Len(p.items) \div 4
    THEN {PricedList(p.all, p.items, p.stales + 1)}
    ELSE {PricedList(p.all, heap_Init("price", reheap), p.stales + 1) :
              reheap \in Perms(p.all)}

\* Removed that counts nothing unless it rebuilds.
txPricedList_Removed_noCount(p) ==
    IF p.stales + 1 <= Len(p.items) \div 4
    THEN {p}
    ELSE {PricedList(p.all, heap_Init("price", reheap), 0) : reheap \in Perms(p.all)}

txPricedList_Removed(p) ==
    IF p.stales + 1 <= Len(p.items) \div 4
    THEN {PricedList(p.all, p.items, p.stales + 1)}
    ELSE {PricedList(p.all, heap_Init("price", reheap), 0) : reheap \in Perms(p.all)}

\* heap.Push of every saved transaction, in order.
RECURSIVE PushAll(_, _)
PushAll(h, save) ==
    IF save = <<>> THEN h
    ELSE PushAll(heap_Push("price", h, Head(save)), Tail(save))

RECURSIVE PricedCapLoop_noLocals(_, _, _, _, _)
PricedCapLoop_noLocals(p, threshold, local, drop, save) ==
    IF Len(p.items) > 0
    THEN LET q == heap_Pop("price", p.items)
         IN  IF q.x \notin p.all
             THEN PricedCapLoop_noLocals(PricedList(p.all, q.h, p.stales - 1),
                                         threshold, local, drop, save)
             ELSE IF q.x.gasPrice >= threshold
             THEN [p |-> PricedList(p.all, q.h, p.stales), drop |-> drop,
                   save |-> Append(save, q.x)]
             ELSE PricedCapLoop_noLocals(PricedList(p.all, q.h, p.stales),
                                         threshold, local, Append(drop, q.x), save)
    ELSE [p |-> p, drop |-> drop, save |-> save]

\* The loop of Cap: the list left, the drops and the saved transactions.
RECURSIVE PricedCapLoop(_, _, _, _, _)
PricedCapLoop(p, threshold, local, drop, save) ==
    IF Len(p.items) > 0
    THEN LET q == heap_Pop("price", p.items)
         IN  IF q.x \notin p.all
             THEN PricedCapLoop(PricedList(p.all, q.h, p.stales - 1),
                                threshold, local, drop, save)
             ELSE IF q.x.gasPrice >= threshold
             THEN [p |-> PricedList(p.all, q.h, p.stales), drop |-> drop,
                   save |-> Append(save, q.x)]
             ELSE IF containsTx(local, q.x)
             THEN PricedCapLoop(PricedList(p.all, q.h, p.stales),
                                threshold, local, drop, Append(save, q.x))
             ELSE PricedCapLoop(PricedList(p.all, q.h, p.stales),
                                threshold, local, Append(drop, q.x), save)
    ELSE [p |-> p, drop |-> drop, save |-> save]

\* Cap that does not push the saved transactions back.
txPricedList_Cap_noPush(p, threshold, local) ==
    LET r == PricedCapLoop(p, threshold, local, <<>>, <<>>)
    IN  [p |-> r.p, drop |-> r.drop]

txPricedList_Cap(p, threshold, local) ==
    LET r == PricedCapLoop(p, threshold, local, <<>>, <<>>)
    IN  [p |-> PricedList(r.p.all, PushAll(r.p.items, r.save), r.p.stales),
         drop |-> r.drop]

\* The loop of Underpriced that discards the stale heads.
RECURSIVE UnderpricedLoop(_)
UnderpricedLoop(p) ==
    IF Len(p.items) > 0 /\ At(p.items, 0) \notin p.all
    THEN UnderpricedLoop(PricedList(p.all, heap_Pop("price", p.items).h, p.stales - 1))
    ELSE p

\* Underpriced that takes an equal price for not underpriced.
txPricedList_Underpriced_strict(p, tx, local) ==
    IF containsTx(local, tx) THEN [p |-> p, ok |-> FALSE]
    ELSE LET q == UnderpricedLoop(p)
         IN  IF Len(q.items) = 0 THEN [p |-> q, ok |-> FALSE]
             ELSE [p |-> q, ok |-> At(q.items, 0).gasPrice > tx.gasPrice]

txPricedList_Underpriced(p, tx, local) ==
    IF containsTx(local, tx) THEN [p |-> p, ok |-> FALSE]
    ELSE LET q == UnderpricedLoop(p)
         IN  IF Len(q.items) = 0 THEN [p |-> q, ok |-> FALSE]
             ELSE [p |-> q, ok |-> At(q.items, 0).gasPrice >= tx.gasPrice]

RECURSIVE DiscardLoop_countLocals(_, _, _, _, _)
DiscardLoop_countLocals(p, count, local, drop, save) ==
    IF Len(p.items) > 0 /\ count > 0
    THEN LET q == heap_Pop("price", p.items)
         IN  IF q.x \notin p.all
             THEN DiscardLoop_countLocals(PricedList(p.all, q.h, p.stales - 1),
                                          count, local, drop, save)
             ELSE IF containsTx(local, q.x)
             THEN DiscardLoop_countLocals(PricedList(p.all, q.h, p.stales),
                                          count - 1, local, drop, Append(save, q.x))
             ELSE DiscardLoop_countLocals(PricedList(p.all, q.h, p.stales),
                                          count - 1, local, Append(drop, q.x), save)
    ELSE [p |-> p, drop |-> drop, save |-> save]

\* The loop of Discard: the list left, the drops and the saved transactions.
RECURSIVE DiscardLoop(_, _, _, _, _)
DiscardLoop(p, count, local, drop, save) ==
    IF Len(p.items) > 0 /\ count > 0
    THEN LET q == heap_Pop("price", p.items)
         IN  IF q.x \notin p.all
             THEN DiscardLoop(PricedList(p.all, q.h, p.stales - 1),
                              count, local, drop, save)
             ELSE IF containsTx(local, q.x)
             THEN DiscardLoop(PricedList(p.all, q.h, p.stales),
                              count, local, drop, Append(save, q.x))
             ELSE DiscardLoop(PricedList(p.all, q.h, p.stales),
                              count - 1, local, Append(drop, q.x), save)
    ELSE [p |-> p, drop |-> drop, save |-> save]

txPricedList_Discard(p, count, local) ==
    LET r == DiscardLoop(p, count, local, <<>>, <<>>)
    IN  [p |-> PricedList(r.p.all, PushAll(r.p.items, r.save), r.p.stales),
         drop |-> r.drop]

\* -------------------------------------------------------------- txJournal

\* A file of the file system: its bytes, when it exists.
NoFile == [exists |-> FALSE, data |-> <<>>]
File(data) == [exists |-> TRUE, data |-> data]

\* journal.path and journal.path + ".new".
Path == "transactions.rlp"
NewPath == "transactions.rlp.new"

Replacement_inPlace == Path

\* The file rotate writes the new journal into.
Replacement == NewPath

\* The values of journal.writer: nil, a devNull, the file opened for append
\* at journal.path, and that file after a Close that returned an error.
NilWriter == "nil"
DevNull == "devNull"
Sink == "sink"
ClosedSink == "closed"

\* The length-prefixed record of a transaction: the length of the payload,
\* then nonce, gas price, gas limit, value and signer.
rlp_Encode(tx) ==
    LET payload == <<tx.nonce, tx.gasPrice, tx.gas,
                     tx.cost - tx.gasPrice * tx.gas, tx.from>>
    IN  <<Len(payload)>> \o payload

\* stream.Decode(tx) on the unread bytes: io.EOF at a record boundary, an
\* error inside a record or on a record that is no transaction, and
\* otherwise the transaction and the bytes left.
rlp_Decode(data) ==
    IF data = <<>> THEN [err |-> "EOF", tx |-> nil, rest |-> <<>>]
    ELSE IF Len(data) < 1 + Head(data) \/ Head(data) # 5
    THEN [err |-> "error", tx |-> nil, rest |-> <<>>]
    ELSE [err |-> "nil",
          tx |-> Tx(data[2], data[3], data[4], data[3] * data[4] + data[5], data[6]),
          rest |-> SubSeq(data, 7, Len(data))]

\* The bytes rotate writes for the transactions s, in order.
RECURSIVE EncodeAll(_)
EncodeAll(s) == IF s = <<>> THEN <<>> ELSE rlp_Encode(Head(s)) \o EncodeAll(Tail(s))

newTxJournal == [path |-> Path, writer |-> NilWriter]

\* insert that takes a devNull for no writer.
txJournal_insert_noDevNull(fsys, w, tx) ==
    IF w = NilWriter \/ w = DevNull THEN [fs |-> fsys, err |-> "errNoActiveJournal"]
    ELSE IF w = ClosedSink THEN [fs |-> fsys, err |-> "error"]
    ELSE [fs |-> [fsys EXCEPT ![Path].data = @ \o rlp_Encode(tx)], err |-> "nil"]

\* insert(tx) with the writer w on the files fsys: the files and the error.
\* A Write to the file open for append succeeds, one to a closed file fails.
txJournal_insert(fsys, w, tx) ==
    IF w = NilWriter THEN [fs |-> fsys, err |-> "errNoActiveJournal"]
    ELSE IF w = DevNull THEN [fs |-> fsys, err |-> "nil"]
    ELSE IF w = ClosedSink THEN [fs |-> fsys, err |-> "error"]
    ELSE [fs |-> [fsys EXCEPT ![Path].data = @ \o rlp_Encode(tx)], err |-> "nil"]

\* The add callback of the pool on a batch: every transaction of it is
\* journalled again with the writer w.  Yields the files and the errors of
\* the inserts.
RECURSIVE loadBatch(_, _, _, _)
loadBatch(fsys, w, txs, errs) ==
    IF txs = <<>> THEN [fs |-> fsys, errs |-> errs]
    ELSE LET r == txJournal_insert(fsys, w, Head(txs))
         IN  loadBatch(r.fs, w, Tail(txs), Append(errs, r.err))

RECURSIVE LoadLoop_noFlush(_, _, _, _, _)
LoadLoop_noFlush(fsys, off, batch, batches, errs) ==
    LET d == rlp_Decode(SubSeq(fsys[Path].data, off + 1, Len(fsys[Path].data)))
    IN  IF d.err # "nil"
        THEN LET failure == IF d.err # "EOF" THEN d.err ELSE "nil"
             IN  [fs |-> fsys, added |-> batches, errs |-> errs, failure |-> failure]
        ELSE LET b == Append(batch, d.tx)
                 next == Len(fsys[Path].data) - Len(d.rest)
             IN  IF Len(b) > BatchLimit
                 THEN LET r == loadBatch(fsys, DevNull, b, errs)
                      IN  LoadLoop_noFlush(r.fs, next, <<>>, Append(batches, b), r.errs)
                 ELSE LoadLoop_noFlush(fsys, next, b, batches, errs)

\* The loop of load from the offset off of the input: the files, the
\* batches handed to add, the errors of the inserts add made, the failure.
RECURSIVE LoadLoop(_, _, _, _, _)
LoadLoop(fsys, off, batch, batches, errs) ==
    LET d == rlp_Decode(SubSeq(fsys[Path].data, off + 1, Len(fsys[Path].data)))
    IN  IF d.err # "nil"
        THEN LET failure == IF d.err # "EOF" THEN d.err ELSE "nil"
             IN  IF Len(batch) > 0
                 THEN LET r == loadBatch(fsys, DevNull, batch, errs)
                      IN  [fs |-> r.fs, added |-> Append(batches, batch),
                           errs |-> r.errs, failure |-> failure]
                 ELSE [fs |-> fsys, added |-> batches, errs |-> errs,
                       failure |-> failure]
        ELSE LET b == Append(batch, d.tx)
                 next == Len(fsys[Path].data) - Len(d.rest)
             IN  IF Len(b) > BatchLimit
                 THEN LET r == loadBatch(fsys, DevNull, b, errs)
                      IN  LoadLoop(r.fs, next, <<>>, Append(batches, b), r.errs)
                 ELSE LoadLoop(fsys, next, b, batches, errs)

\* load that returns without the deferred reset of the writer.
txJournal_load_keepDevNull(fsys, w, openFails) ==
    IF ~fsys[Path].exists
    THEN [fs |-> fsys, writer |-> w, added |-> <<>>, errs |-> <<>>, err |-> "nil"]
    ELSE IF openFails
    THEN [fs |-> fsys, writer |-> w, added |-> <<>>, errs |-> <<>>, err |-> "error"]
    ELSE LET r == LoadLoop(fsys, 0, <<>>, <<>>, <<>>)
         IN  [fs |-> r.fs, writer |-> DevNull, added |-> r.added,
              errs |-> r.errs, err |-> r.failure]

\* load(add) with the writer w on the files fsys; openFails says that
\* os.Open returns an error.  Yields the files, the writer, the batches
\* handed to add, the errors of the inserts add made and the error returned.
txJournal_load(fsys, w, openFails) ==
    IF ~fsys[Path].exists
    THEN [fs |-> fsys, writer |-> w, added |-> <<>>, errs |-> <<>>, err |-> "nil"]
    ELSE IF openFails
    THEN [fs |-> fsys, writer |-> w, added |-> <<>>, errs |-> <<>>, err |-> "error"]
    ELSE LET r == LoadLoop(fsys, 0, <<>>, <<>>, <<>>)
         IN  [fs |-> r.fs, writer |-> NilWriter, added |-> r.added,
              errs |-> r.errs, err |-> r.failure]

\* close() with the writer w; fails says that Close returns an error.
txJournal_close(w, fails) ==
    IF w # NilWriter
    THEN [writer |-> NilWriter,
          err |-> IF w # DevNull /\ (fails \/ w = ClosedSink) THEN "error" ELSE "nil"]
    ELSE [writer |-> w, err |-> "nil"]

\* Every order in which rotate may write the transactions of the map all
\* of accounts to slices: the accounts in any order, each slice in its own.
RECURSIVE Concat(_, _)
Concat(all_, order) ==
    IF order = <<>> THEN <<>>
    ELSE all_[Head(order)] \o Concat(all_, Tail(order))

RotateOrders(all_) == {Concat(all_, order) : order \in Perms(DOMAIN all_)}

\* ------------------------------------------------------------------ state

VARIABLES
    strict,     \* txList.strict
    items,      \* txSortedMap.items of the list's map
    index,      \* txSortedMap.index
    cache,      \* txSortedMap.cache
    costcap,    \* txList.costcap
    gascap,     \* txList.gascap
    all,        \* txPricedList.all: the transactions of the pool's map
    priced,     \* txPricedList.items
    stales,     \* txPricedList.stales
    fs,         \* the files at journal.path and at journal.path + ".new"
    writer,     \* txJournal.writer
    pc,         \* the statement rotate is at
    pending,    \* the transactions rotate has still to write
    contents,   \* the transactions of the running rotate, in the written order
    call        \* the last call: its name and what it returned

listVars == <<strict, items, index, cache, costcap, gascap>>

pricedVars == <<all, priced, stales>>

journalVars == <<fs, writer, pc, pending, contents>>

vars ==
    <<strict, items, index, cache, costcap, gascap, all, priced, stales,
      fs, writer, pc, pending, contents, call>>

\* The map and the list the variables hold.
theMap == SortedMap(items, index, cache)
theList == List(strict, theMap, costcap, gascap)

SetMap(m) ==
    /\ items' = m.items /\ index' = m.index /\ cache' = m.cache
    /\ UNCHANGED <<pricedVars, journalVars>>

SetList(l) ==
    SetMap(l.txs) /\ strict' = l.strict /\ costcap' = l.costcap /\ gascap' = l.gascap

\* What a call of op returned, before its results are filled in: ok is a
\* boolean result or that the error is nil, n an integer result, tx a
\* transaction result (nil for none), ret a returned slice whose order the
\* code fixes, removed and invalids the slices a map iteration filled,
\* added the batches handed to a callback, at the statement that returned.
\* A load that follows a rotate that returned nil has n = 1 and keeps in
\* ret the transactions that rotate wrote.
Returned(op) ==
    [op |-> op, ok |-> TRUE, n |-> 0, tx |-> nil, ret |-> <<>>, removed |-> {},
     invalids |-> {}, added |-> <<>>, at |-> "", args |-> <<>>, errs |-> <<>>]

NoCall == Returned("new")

\* newTxList(st) and its newTxSortedMap().
InitList(st) ==
    /\ strict = st
    /\ items = newTxSortedMap.items
    /\ index = newTxSortedMap.index
    /\ cache = newTxSortedMap.cache
    /\ costcap = newTxList(st).costcap
    /\ gascap = newTxList(st).gascap

\* The price heap the variables hold.
thePriced == PricedList(all, priced, stales)

SetPriced(p) ==
    /\ priced' = p.items /\ stales' = p.stales
    /\ UNCHANGED <<all, listVars, journalVars>>

\* newTxPricedList(&all) of an empty pool.
InitPriced ==
    /\ all = {}
    /\ priced = newTxPricedList({}).items
    /\ stales = newTxPricedList({}).stales

\* newTxJournal(path) where no file exists yet.
InitJournal ==
    /\ fs = (Path :> NoFile) @@ (NewPath :> NoFile)
    /\ writer = newTxJournal.writer
    /\ pc = "idle"
    /\ pending = <<>>
    /\ contents = <<>>

\* ---------------------------------------------------- txSortedMap's calls

Map_Get(nonce) ==
    /\ call' = [Returned("Get") EXCEPT !.tx = txSortedMap_Get(theMap, nonce)]
    /\ UNCHANGED <<listVars, pricedVars, journalVars>>

Map_Put(tx) ==
    /\ SetMap(txSortedMap_Put(theMap, tx))
    /\ call' = Returned("Put")
    /\ UNCHANGED <<strict, costcap, gascap>>

Map_Forward(threshold) ==
    LET r == txSortedMap_Forward(theMap, threshold)
    IN  /\ SetMap(r.m)
        /\ call' = [Returned("Forward") EXCEPT !.ret = r.ret]
        /\ UNCHANGED <<strict, costcap, gascap>>

Map_Filter(F) ==
    \E r \in txSortedMap_Filter(theMap, F) :
        /\ SetMap(r.m)
        /\ call' = [Returned("Filter") EXCEPT !.removed = r.removed]
        /\ UNCHANGED <<strict, costcap, gascap>>

Map_Cap(threshold) ==
    LET r == txSortedMap_Cap(theMap, threshold)
    IN  /\ SetMap(r.m)
        /\ call' = [Returned("Cap") EXCEPT !.ret = r.ret]
        /\ UNCHANGED <<strict, costcap, gascap>>

Map_Remove(nonce) ==
    LET r == txSortedMap_Remove(theMap, nonce)
    IN  /\ SetMap(r.m)
        /\ call' = [Returned("Remove") EXCEPT !.ok = r.ok]
        /\ UNCHANGED <<strict, costcap, gascap>>

Map_Ready(start) ==
    LET r == txSortedMap_Ready(theMap, start)
    IN  /\ SetMap(r.m)
        /\ call' = [Returned("Ready") EXCEPT !.ret = r.ret]
        /\ UNCHANGED <<strict, costcap, gascap>>

Map_Len ==
    /\ call' = [Returned("Len") EXCEPT !.n = txSortedMap_Len(theMap)]
    /\ UNCHANGED <<listVars, pricedVars, journalVars>>

Map_Flatten ==
    LET r == txSortedMap_Flatten(theMap)
    IN  /\ SetMap(r.m)
        /\ call' = [Returned("Flatten") EXCEPT !.ret = r.ret]
        /\ UNCHANGED <<strict, costcap, gascap>>

\* The transactions the map's callers put: two per nonce.
Nonces == 1..MaxNonce
MapTxs == {Tx(n, p, 21000, 21000 * p, 0) : n \in Nonces, p \in {100, 110}}

InitMap == InitList(FALSE) /\ InitPriced /\ InitJournal /\ call = NoCall

NextMap ==
    \/ \E nonce \in Nonces : Map_Get(nonce)
    \/ \E tx \in MapTxs : Map_Put(tx)
    \/ \E threshold \in 0..(MaxNonce + 1) : Map_Forward(threshold)
    \/ \E F \in SUBSET Stored(items) : Map_Filter(F)
    \/ \E threshold \in 0..MaxNonce : Map_Cap(threshold)
    \/ \E nonce \in Nonces : Map_Remove(nonce)
    \/ \E start \in 0..MaxNonce : Map_Ready(start)
    \/ Map_Len
    \/ Map_Flatten

SpecMap == InitMap /\ [][NextMap]_vars


\* --------------------------------------------------------- txList's calls

List_Overlaps(tx) ==
    /\ call' = [Returned("Overlaps") EXCEPT !.ok = txList_Overlaps(theList, tx)]
    /\ UNCHANGED <<listVars, pricedVars, journalVars>>

List_Add(tx, priceBump) ==
    LET r == txList_Add(theList, tx, priceBump)
    IN  /\ SetList(r.l)
        /\ call' = [Returned("Add") EXCEPT !.ok = r.ok, !.tx = r.old]

List_Forward(threshold) ==
    LET r == txList_Forward(theList, threshold)
    IN  /\ SetList(r.l)
        /\ call' = [Returned("Forward") EXCEPT !.ret = r.ret]

\* The call records its limits, and in n whether it repeats the call before
\* it: 2 when that was a Filter by the same limits that removed something,
\* 1 when it was one that removed nothing, 0 otherwise.
List_Filter(costLimit, gasLimit) ==
    \E r \in txList_Filter(theList, costLimit, gasLimit) :
        /\ SetList(r.l)
        /\ call' = [Returned("Filter") EXCEPT
                        !.removed = r.removed,
                        !.invalids = r.invalids,
                        !.args = <<costLimit, gasLimit>>,
                        !.n = IF call.op = "Filter" /\ call.args = <<costLimit, gasLimit>>
                              THEN (IF call.removed # {} THEN 2 ELSE 1)
                              ELSE 0]

List_Cap(threshold) ==
    LET r == txList_Cap(theList, threshold)
    IN  /\ SetList(r.l)
        /\ call' = [Returned("Cap") EXCEPT !.ret = r.ret]

List_Remove(tx) ==
    \E r \in txList_Remove(theList, tx) :
        /\ SetList(r.l)
        /\ call' = [Returned("Remove") EXCEPT !.ok = r.ok, !.invalids = r.invalids]

List_Ready(start) ==
    LET r == txList_Ready(theList, start)
    IN  /\ SetList(r.l)
        /\ call' = [Returned("Ready") EXCEPT !.ret = r.ret]

List_Len ==
    /\ call' = [Returned("Len") EXCEPT !.n = txList_Len(theList)]
    /\ UNCHANGED <<listVars, pricedVars, journalVars>>

List_Empty ==
    /\ call' = [Returned("Empty") EXCEPT !.ok = txList_Empty(theList)]
    /\ UNCHANGED <<listVars, pricedVars, journalVars>>

List_Flatten ==
    LET r == txList_Flatten(theList)
    IN  /\ SetList(r.l)
        /\ call' = [Returned("Flatten") EXCEPT !.ret = r.ret]

\* The transactions added to a list: per nonce, a plain transfer, one with a
\* high gas limit and one that sends a high value (cost = gas * gasPrice + value).
ListNonces == 1..MaxListNonce
ListTxs ==
    {Tx(n, 100, gv[1], gv[1] * 100 + gv[2], 0) :
        n \in ListNonces, gv \in {<<21000, 0>>, <<90000, 0>>, <<21000, 10000000>>}}

\* The balances and block gas limits a list is filtered by.
CostLimits == {5000000, 20000000}
GasLimits == {50000, 100000}

InitStrictOrNot ==
    (\E st \in BOOLEAN : InitList(st)) /\ InitPriced /\ InitJournal /\ call = NoCall

\* The calls the claims about a list's reachable states range over.
NextList ==
    \/ \E tx \in ListTxs, priceBump \in {MaxBump} : List_Add(tx, priceBump)
    \/ \E threshold \in 0..(MaxListNonce + 1) : List_Forward(threshold)
    \/ \E costLimit \in CostLimits, gasLimit \in GasLimits : List_Filter(costLimit, gasLimit)
    \/ \E threshold \in 0..MaxListNonce : List_Cap(threshold)
    \/ \E tx \in ListTxs : List_Remove(tx)
    \/ \E start \in 0..MaxListNonce : List_Ready(start)

SpecList == InitStrictOrNot /\ [][NextList]_vars

\* The transactions of the replacement runs: three gas prices per nonce.
AddNonces == 1..MaxAddNonce
AddTxs == {Tx(n, p, 21000, 21000 * p, 0) : n \in AddNonces, p \in {100, 109, 110}}
PriceBumps == 0..MaxBump

NextAdd ==
    \/ \E tx \in AddTxs, priceBump \in PriceBumps : List_Add(tx, priceBump)
    \/ \E tx \in AddTxs : List_Remove(tx)
    \/ \E tx \in AddTxs : List_Overlaps(tx)
    \/ List_Len
    \/ List_Empty
    \/ List_Flatten

SpecAdd == InitStrictOrNot /\ [][NextAdd]_vars

\* The nonce n is stored already, or lies next to the stored range, or
\* nothing is stored.
ExtendsRange(S, n) ==
    \/ S = {}
    \/ n \in S
    \/ \E k \in S : (n = k + 1 \/ n + 1 = k)

\* Add to the executable list: the transaction replaces a stored nonce or
\* extends the stored range by one.
Strict_Add(tx, priceBump) ==
    /\ ExtendsRange(DOMAIN items, tx.nonce)
    /\ List_Add(tx, priceBump)

\* The calls on a strict list that is only added to at its range.
NextStrict ==
    \/ \E tx \in ListTxs, priceBump \in {MaxBump} : Strict_Add(tx, priceBump)
    \/ \E threshold \in 0..(MaxListNonce + 1) : List_Forward(threshold)
    \/ \E costLimit \in CostLimits, gasLimit \in GasLimits : List_Filter(costLimit, gasLimit)
    \/ \E threshold \in 0..MaxListNonce : List_Cap(threshold)
    \/ \E tx \in ListTxs : List_Remove(tx)
    \/ \E start \in 0..MaxListNonce : List_Ready(start)

InitStrict == InitList(TRUE) /\ InitPriced /\ InitJournal /\ call = NoCall

SpecStrict == InitStrict /\ [][NextStrict]_vars


\* --------------------------------------------------- txPricedList's calls

\* The pool stores tx in the map all points to.
Pool_Insert(tx) ==
    /\ tx \notin all
    /\ all' = all \cup {tx}
    /\ call' = Returned("insert")
    /\ UNCHANGED <<priced, stales, listVars, journalVars>>

\* The pool deletes tx from the map all points to.
Pool_Delete(tx) ==
    /\ tx \in all
    /\ all' = all \ {tx}
    /\ call' = Returned("delete")
    /\ UNCHANGED <<priced, stales, listVars, journalVars>>

Priced_Put(tx) ==
    /\ Len(priced) < MaxHeap
    /\ SetPriced(txPricedList_Put(thePriced, tx))
    /\ call' = Returned("Put")

\* The call records in n the length of the heap it found.
Priced_Removed ==
    \E p \in txPricedList_Removed(thePriced) :
        /\ SetPriced(p)
        /\ call' = [Returned("Removed") EXCEPT !.ok = (p.stales = 0), !.n = Len(priced)]

Priced_Cap(threshold, local) ==
    LET r == txPricedList_Cap(thePriced, threshold, local)
    IN  /\ r.p.stales >= -MaxStale
        /\ SetPriced(r.p)
        /\ call' = [Returned("Cap") EXCEPT !.ret = r.drop]

\* The call records in n how many entries it has discarded.
Priced_Underpriced(tx, local) ==
    LET r == txPricedList_Underpriced(thePriced, tx, local)
    IN  /\ r.p.stales >= -MaxStale
        /\ SetPriced(r.p)
        /\ call' = [Returned("Underpriced") EXCEPT
                        !.ok = r.ok, !.n = Len(priced) - Len(r.p.items)]

Priced_Discard(count, local) ==
    LET r == txPricedList_Discard(thePriced, count, local)
    IN  /\ r.p.stales >= -MaxStale
        /\ SetPriced(r.p)
        /\ call' = [Returned("Discard") EXCEPT !.ret = r.drop, !.n = count]

\* The accounts and the transactions of the runs of the price heap: the
\* first account offers its nonce at two prices, the second at the lower.
PricedAccounts == {1, 2}
PricedTx(a, p) == Tx(a, p, 21000, 21000 * p, a)
PricedTxs == {PricedTx(1, 10), PricedTx(1, 20), PricedTx(2, 10)}
Thresholds == {15, 25}

NextPriced ==
    \/ \E tx \in PricedTxs : Pool_Insert(tx)
    \/ \E tx \in PricedTxs : Pool_Delete(tx)
    \/ \E tx \in PricedTxs : Priced_Put(tx)
    \/ Priced_Removed
    \/ \E threshold \in Thresholds, local \in SUBSET PricedAccounts :
           Priced_Cap(threshold, local)
    \/ \E tx \in PricedTxs, local \in SUBSET PricedAccounts :
           Priced_Underpriced(tx, local)
    \/ \E count \in 0..MaxCount, local \in SUBSET PricedAccounts :
           Priced_Discard(count, local)

SpecPriced == InitMap /\ [][NextPriced]_vars


\* ------------------------------------------------- the pool's discipline

\* The pool deletes each transaction of txs from its map and calls Removed
\* once for it, one transaction after the other: the lists that can result.
RECURSIVE RemoveEach(_, _)
RemoveEach(p, txs) ==
    IF txs = <<>> THEN {p}
    ELSE UNION {RemoveEach(q, Tail(txs)) :
                   q \in txPricedList_Removed(
                             PricedList(p.all \ {Head(txs)}, p.items, p.stales))}

SetPool(p) ==
    /\ all' = p.all /\ priced' = p.items /\ stales' = p.stales
    /\ UNCHANGED <<listVars, journalVars>>

\* tx enters the pool's map and is put into the heap once.
Pool_Add(tx) ==
    /\ tx \notin all
    /\ Len(priced) < MaxPoolHeap
    /\ SetPool(txPricedList_Put(PricedList(all \cup {tx}, priced, stales), tx))
    /\ call' = Returned("Pool.add")

\* tx leaves the pool's map and the pool calls Removed once.
Pool_RemoveTx(tx) ==
    /\ tx \in all
    /\ \E p \in RemoveEach(thePriced, <<tx>>) : SetPool(p)
    /\ call' = Returned("Pool.removeTx")

\* The pool caps the heap by a price and removes what Cap returns.
Pool_Cap(threshold, local) ==
    LET r == txPricedList_Cap(thePriced, threshold, local)
    IN  /\ \E p \in RemoveEach(r.p, r.drop) : SetPool(p)
        /\ call' = [Returned("Pool.Cap") EXCEPT !.ret = r.drop]

\* The pool asks whether a transaction it does not hold is underpriced.
Pool_Underpriced(tx, local) ==
    LET r == txPricedList_Underpriced(thePriced, tx, local)
    IN  /\ tx \notin all
        /\ SetPool(r.p)
        /\ call' = [Returned("Pool.Underpriced") EXCEPT
                        !.ok = r.ok, !.n = Len(priced) - Len(r.p.items)]

\* The pool discards the cheapest transactions and removes what Discard
\* returns.
Pool_Discard(count, local) ==
    LET r == txPricedList_Discard(thePriced, count, local)
    IN  /\ \E p \in RemoveEach(r.p, r.drop) : SetPool(p)
        /\ call' = [Returned("Pool.Discard") EXCEPT !.ret = r.drop]

\* The transactions of the disciplined pool: three nonces of the first
\* account and two of the second, at two prices; the first account may be
\* local.
PoolTx(a, n, p) == Tx(n, p, 21000, 21000 * p, a)
PoolTxs ==
    {PoolTx(1, 1, 10), PoolTx(1, 2, 20), PoolTx(1, 3, 20), PoolTx(2, 1, 10),
     PoolTx(2, 2, 20)}
PoolLocals == {{}, {1}}

NextPool ==
    \/ \E tx \in PoolTxs : Pool_Add(tx)
    \/ \E tx \in PoolTxs : Pool_RemoveTx(tx)
    \/ \E threshold \in Thresholds, local \in PoolLocals : Pool_Cap(threshold, local)
    \/ \E tx \in PoolTxs, local \in PoolLocals : Pool_Underpriced(tx, local)
    \/ \E count \in 1..MaxCount, local \in PoolLocals : Pool_Discard(count, local)

SpecPool == InitMap /\ [][NextPool]_vars

\* ------------------------------------------------------ txJournal's calls

\* A call that returns: rotate is not running any more.
Return(op, err, at, ret) ==
    /\ pc' = "idle"
    /\ pending' = <<>>
    /\ contents' = <<>>
    /\ call' = [Returned(op) EXCEPT !.ok = (err = "nil"), !.at = at, !.ret = ret]

\* The call records the batches handed to add and the errors of the inserts
\* add made, and whether it follows a rotate that returned nil.
Journal_load(openFails) ==
    /\ pc = "idle"
    /\ LET r == txJournal_load(fs, writer, openFails)
       IN  /\ fs' = r.fs
           /\ writer' = r.writer
           /\ call' = [Returned("load") EXCEPT
                          !.ok = (r.err = "nil"),
                          !.added = r.added,
                          !.errs = r.errs,
                          !.at = IF fs[Path].exists /\ openFails THEN "Open" ELSE "return",
                          !.n = IF call.op = "rotate" /\ call.ok THEN 1 ELSE 0,
                          !.ret = IF call.op = "rotate" /\ call.ok THEN call.ret ELSE <<>>]
    /\ UNCHANGED <<pc, pending, contents, listVars, pricedVars>>

\* The call records in n whether it follows a load that returned nil.
Journal_insert(tx) ==
    /\ pc = "idle"
    /\ Len(fs[Path].data) < MaxEntries * Len(rlp_Encode(tx))
    /\ LET r == txJournal_insert(fs, writer, tx)
       IN  /\ fs' = r.fs
           /\ call' = [Returned("insert") EXCEPT
                          !.ok = (r.err = "nil"),
                          !.at = r.err,
                          !.n = IF call.op = "load" /\ call.ok THEN 1 ELSE 0]
    /\ UNCHANGED <<writer, pc, pending, contents, listVars, pricedVars>>

Journal_close(fails) ==
    /\ pc = "idle"
    /\ LET r == txJournal_close(writer, fails)
       IN  /\ writer' = r.writer
           /\ call' = [Returned("close") EXCEPT !.ok = (r.err = "nil")]
    /\ UNCHANGED <<fs, pc, pending, contents, listVars, pricedVars>>

\* rotate(all) is called: the order it will write the transactions in.
Rotate_Call(all_) ==
    /\ pc = "idle"
    /\ \E order \in RotateOrders(all_) :
           /\ contents' = order
           /\ pending' = order
    /\ pc' = "Close"
    /\ call' = [Returned("rotate") EXCEPT !.ok = FALSE, !.at = "running"]
    /\ UNCHANGED <<fs, writer, listVars, pricedVars>>

\* journal.writer.Close() of the current journal, if any is open.
Rotate_Close(fails) ==
    /\ pc = "Close"
    /\ IF writer # NilWriter /\ writer # DevNull /\ (fails \/ writer = ClosedSink)
       THEN /\ writer' = ClosedSink
            /\ Return("rotate", "error", "Close", <<>>)
       ELSE /\ writer' = NilWriter
            /\ pc' = "OpenFile"
            /\ UNCHANGED <<pending, contents, call>>
    /\ UNCHANGED <<fs, listVars, pricedVars>>

\* os.OpenFile of the replacement, created and truncated.
Rotate_OpenFile(fails) ==
    /\ pc = "OpenFile"
    /\ IF fails
       THEN /\ Return("rotate", "error", "OpenFile", <<>>)
            /\ UNCHANGED fs
       ELSE /\ fs' = [fs EXCEPT ![Replacement] = File(<<>>)]
            /\ pc' = "Encode"
            /\ UNCHANGED <<pending, contents, call>>
    /\ UNCHANGED <<writer, listVars, pricedVars>>

\* rlp.Encode(replacement, tx) of the next transaction; a failing Write has
\* written k bytes of it.
Rotate_Encode(fails) ==
    /\ pc = "Encode"
    /\ pending # <<>>
    /\ IF fails
       THEN /\ \E k \in 0..(Len(rlp_Encode(Head(pending))) - 1) :
                   fs' = [fs EXCEPT ![Replacement].data =
                                         @ \o SubSeq(rlp_Encode(Head(pending)), 1, k)]
            /\ Return("rotate", "error", "Encode", <<>>)
       ELSE /\ fs' = [fs EXCEPT ![Replacement].data = @ \o rlp_Encode(Head(pending))]
            /\ pending' = Tail(pending)
            /\ UNCHANGED <<pc, contents, call>>
    /\ UNCHANGED <<writer, listVars, pricedVars>>

\* replacement.Close() and os.Rename of the replacement to journal.path.
Rotate_Rename(fails) ==
    /\ pc = "Encode"
    /\ pending = <<>>
    /\ IF fails
       THEN /\ Return("rotate", "error", "Rename", <<>>)
            /\ UNCHANGED fs
       ELSE /\ fs' = IF Replacement = Path THEN fs
                     ELSE [fs EXCEPT ![Path] = fs[Replacement], ![Replacement] = NoFile]
            /\ pc' = "Reopen"
            /\ UNCHANGED <<pending, contents, call>>
    /\ UNCHANGED <<writer, listVars, pricedVars>>

\* os.OpenFile of journal.path for append, and the return of rotate.
Rotate_Reopen(fails) ==
    /\ pc = "Reopen"
    /\ IF fails
       THEN /\ Return("rotate", "error", "Reopen", contents)
            /\ UNCHANGED writer
       ELSE /\ Return("rotate", "nil", "return", contents)
            /\ writer' = Sink
    /\ UNCHANGED <<fs, listVars, pricedVars>>

\* The process stops while rotate runs; a Write under way has written k
\* bytes.  The next process starts with a new txJournal.
Rotate_Crash ==
    /\ pc # "idle"
    /\ IF pc = "Encode" /\ pending # <<>>
       THEN \E k \in 0..(Len(rlp_Encode(Head(pending))) - 1) :
                fs' = [fs EXCEPT ![Replacement].data =
                                      @ \o SubSeq(rlp_Encode(Head(pending)), 1, k)]
       ELSE UNCHANGED fs
    /\ writer' = newTxJournal.writer
    /\ Return("crash", "error", pc, IF pc = "Reopen" THEN contents ELSE <<>>)
    /\ UNCHANGED <<listVars, pricedVars>>

\* The transactions of the journals, and the maps rotate is called with:
\* the first account with its nonces 1..k in order, the second with none
\* or with its first.
JournalTx(a, n) == Tx(n, 10, 2, 27, a)
JournalTxs == {JournalTx(1, n) : n \in 1..MaxJournalNonce} \cup {JournalTx(2, 1)}
JournalPools ==
    {(1 :> [n \in 1..k |-> JournalTx(1, n)]) @@ (2 :> [n \in 1..j |-> JournalTx(2, n)]) :
        k \in 0..MaxJournalNonce, j \in {0, 1}}

\* The journal a process finds at its start: none, or one whose last record
\* an earlier process was writing when it stopped.
FoundJournals ==
    {NoFile, File(rlp_Encode(JournalTx(1, 1)) \o SubSeq(rlp_Encode(JournalTx(2, 1)), 1, 3))}

InitFound ==
    /\ InitList(FALSE) /\ InitPriced /\ call = NoCall
    /\ \E f \in FoundJournals : fs = (Path :> f) @@ (NewPath :> NoFile)
    /\ writer = newTxJournal.writer
    /\ pc = "idle"
    /\ pending = <<>>
    /\ contents = <<>>

NextJournal ==
    \/ \E openFails \in BOOLEAN : Journal_load(openFails)
    \/ \E tx \in JournalTxs : Journal_insert(tx)
    \/ \E fails \in BOOLEAN : Journal_close(fails)
    \/ \E all_ \in JournalPools : Rotate_Call(all_)
    \/ \E fails \in BOOLEAN : Rotate_Close(fails)
    \/ \E fails \in BOOLEAN : Rotate_OpenFile(fails)
    \/ \E fails \in BOOLEAN : Rotate_Encode(fails)
    \/ \E fails \in BOOLEAN : Rotate_Rename(fails)
    \/ \E fails \in BOOLEAN : Rotate_Reopen(fails)
    \/ Rotate_Crash

SpecJournal == InitFound /\ [][NextJournal]_vars

\* ------------------------------------------------- claims: txSortedMap

\* The least element of a non-empty set of numbers.
Min(S) == CHOOSE n \in S : \A k \in S : n <= k

\* The function f on the keys in S only.
Restrict(f, S) == [k \in S |-> f[k]]

\* s lists transactions by strictly ascending nonce.
Ascending(s) == \A i, j \in 1..Len(s) : i < j => s[i].nonce < s[j].nonce

\* C9: in every reachable map and for every threshold t, Forward(t) returns
\* exactly the stored transactions with nonce < t, by ascending nonce, and
\* the map it leaves stores exactly the transactions with nonce >= t, as
\* they were.
C9_ForwardExact ==
    \A t \in 0..(MaxNonce + 1) :
        LET r   == txSortedMap_Forward(theMap, t)
            low == {k \in DOMAIN items : k < t}
        IN  /\ Len(r.ret) = Cardinality(low)
            /\ {r.ret[i] : i \in 1..Len(r.ret)} = {items[k] : k \in low}
            /\ Ascending(r.ret)
            /\ r.m.items = Restrict(items, DOMAIN items \ low)

\* C9's case: a Forward has returned several transactions and left others.
C9_Witness ==
    /\ call.op = "Forward"
    /\ Len(call.ret) >= 2
    /\ DOMAIN items # {}
    /\ \A k \in DOMAIN items : k > call.ret[Len(call.ret)].nonce

\* The run of consecutive nonces that starts at the lowest stored nonce.
LowestRun(it) ==
    {n \in DOMAIN it : \A k \in Min(DOMAIN it)..n : k \in DOMAIN it}

\* The map holding the transactions S, put in ascending nonce order.
RECURSIVE MapOf(_)
MapOf(S) ==
    IF S = {} THEN newTxSortedMap
    ELSE LET hi == CHOOSE t \in S : \A u \in S : u.nonce <= t.nonce
         IN  txSortedMap_Put(MapOf(S \ {hi}), hi)

\* The example of C10: {3, 4, 5, 7}, Ready(3) twice.
C10_Example ==
    LET tx(n) == Tx(n, 100, 21000, 2100000, 0)
        r1 == txSortedMap_Ready(MapOf({tx(3), tx(4), tx(5), tx(7)}), 3)
        r2 == txSortedMap_Ready(r1.m, 3)
    IN  /\ r1.ret = <<tx(3), tx(4), tx(5)>>
        /\ Stored(r1.m.items) = {tx(7)}
        /\ r2.ret = <<>>
        /\ r2.m = r1.m

C11_Original ==
    \A start \in 0..MaxNonce :
        DOMAIN items # {} /\ Min(DOMAIN items) < start =>
            \A k \in DOMAIN txSortedMap_Ready(theMap, start).m.items : k >= start

\* The n lowest keys of the map it.
LowestKeys(it, n) ==
    {k \in DOMAIN it : Cardinality({j \in DOMAIN it : j < k}) < n}

\* C12: in every reachable map and for every n >= 0, Cap(n) returns nothing
\* and changes nothing when the map holds at most n transactions; otherwise
\* it returns exactly the |items| - n transactions of the highest nonces and
\* leaves exactly the n of the lowest nonces stored, as they were.
C12_CapExact ==
    \A n \in 0..MaxNonce :
        LET r == txSortedMap_Cap(theMap, n)
        IN  IF Cardinality(DOMAIN items) <= n
            THEN r.ret = <<>> /\ r.m = theMap
            ELSE LET keep == LowestKeys(items, n)
                 IN  /\ Len(r.ret) = Cardinality(DOMAIN items) - n
                     /\ Range(r.ret) = {items[k] : k \in DOMAIN items \ keep}
                     /\ r.m.items = Restrict(items, keep)
                     /\ Cardinality(DOMAIN r.m.items) = n

\* C12's case: a Cap has returned transactions and left others, all of
\* lower nonces.
C12_Witness ==
    /\ call.op = "Cap"
    /\ call.ret # <<>>
    /\ Cardinality(DOMAIN items) >= 2
    /\ \A k \in DOMAIN items, i \in 1..Len(call.ret) : k < call.ret[i].nonce

\* s lists transactions by strictly descending nonce.
Descending(s) == \A i, j \in 1..Len(s) : i < j => s[i].nonce > s[j].nonce

\* C13 as stated: in every reachable map and for every n, Cap(n) returns
\* the dropped transactions by ascending nonce.
C13_Original ==
    \A n \in 0..MaxNonce : Ascending(txSortedMap_Cap(theMap, n).ret)

\* C13, corrected: in every reachable map and for every n, Cap(n) returns
\* the dropped transactions by descending nonce, the highest first.
C13_CapDescending ==
    \A n \in 0..MaxNonce : Descending(txSortedMap_Cap(theMap, n).ret)

\* C13's case: a Cap has returned three transactions, the highest first.
C13_Witness ==
    /\ call.op = "Cap"
    /\ Len(call.ret) = 3
    /\ call.ret[1].nonce > call.ret[2].nonce
    /\ call.ret[2].nonce > call.ret[3].nonce

\* C16: in every reachable map the index holds as many entries as there are
\* keys of items, and the entries are the keys: each key once, nothing else.
C16_IndexAgrees ==
    /\ Len(index) = Cardinality(DOMAIN items)
    /\ Range(index) = DOMAIN items

\* C16's case: a Put has replaced a stored transaction while the map holds
\* several nonces.
C16_Witness ==
    /\ call.op = "Put"
    /\ Len(index) >= 3
    /\ \E k \in DOMAIN items : items[k].gasPrice = 110
    /\ Cardinality(DOMAIN items) < MaxNonce

\* The example of C17: flatten {1, 2, 3, 4}, Forward(3), flatten again.
C17_Example ==
    LET tx(n) == Tx(n, 100, 21000, 2100000, 0)
        f1 == txSortedMap_Flatten(MapOf({tx(1), tx(2), tx(3), tx(4)}))
        fw == txSortedMap_Forward(f1.m, 3)
        f2 == txSortedMap_Flatten(fw.m)
    IN  /\ f1.ret = <<tx(1), tx(2), tx(3), tx(4)>>
        /\ fw.ret = <<tx(1), tx(2)>>
        /\ fw.m.cache = Slice(<<tx(3), tx(4)>>)
        /\ f2.ret = <<tx(3), tx(4)>>

\* C17: in every reachable map a cache that is present lists the stored
\* transactions, each once, by ascending nonce.  The example holds.
C17_CacheSorted ==
    /\ C17_Example
    /\ ~cache.isNil =>
           /\ Len(cache.txs) = Cardinality(DOMAIN items)
           /\ Range(cache.txs) = Stored(items)
           /\ Ascending(cache.txs)

\* C17's case: a Forward has removed transactions from a map whose cache
\* was present, and has left others in it.
C17_Witness ==
    /\ call.op = "Forward"
    /\ call.ret # <<>>
    /\ ~cache.isNil
    /\ Len(cache.txs) >= 2


\* ------------------------------------------------------ claims: txList

\* C1 as stated: for every stored old, every tx with old's nonce and every
\* bump, Add accepts tx iff tx.gasPrice > old.gasPrice and
\* tx.gasPrice * 100 >= old.gasPrice * (100 + bump).
C1_Original ==
    \A tx \in AddTxs, bump \in PriceBumps :
        LET old == Lookup(items, tx.nonce)
        IN  old # nil =>
                (txList_Add(theList, tx, bump).ok <=>
                    /\ tx.gasPrice > old.gasPrice
                    /\ tx.gasPrice * 100 >= old.gasPrice * (100 + bump))

\* C1 amended: for every stored old, every tx with old's nonce and every
\* bump, Add accepts tx iff tx.gasPrice > old.gasPrice and tx.gasPrice is at
\* least old.gasPrice * (100 + bump) / 100 rounded down, which is to say
\* (tx.gasPrice + 1) * 100 > old.gasPrice * (100 + bump).
C1_ReplaceOrRejectTruncating ==
    \A tx \in AddTxs, bump \in PriceBumps :
        LET old == Lookup(items, tx.nonce)
        IN  old # nil =>
                (txList_Add(theList, tx, bump).ok <=>
                    /\ tx.gasPrice > old.gasPrice
                    /\ (tx.gasPrice + 1) * 100 > old.gasPrice * (100 + bump))

\* C1's case: an Add has replaced a stored transaction priced 109 by one
\* priced 110, which is less than any whole percent above.
C1_Witness ==
    /\ call.op = "Add"
    /\ call.ok
    /\ call.tx # nil
    /\ call.tx.gasPrice = 109
    /\ Lookup(items, call.tx.nonce).gasPrice = 110

\* The list after the transactions of s were added one after the other.
RECURSIVE ListOf(_, _, _)
ListOf(st, s, priceBump) ==
    IF s = <<>> THEN newTxList(st)
    ELSE txList_Add(ListOf(st, SubSeq(s, 1, Len(s) - 1), priceBump),
                    s[Len(s)], priceBump).l

\* The example of C2: bump 10, price 100 stored, then 109 and 110.
C2_Example ==
    LET tx(p) == Tx(5, p, 21000, 21000 * p, 0)
        l0 == ListOf(TRUE, <<tx(100)>>, 10)
        r1 == txList_Add(l0, tx(109), 10)
        r2 == txList_Add(r1.l, tx(110), 10)
    IN  /\ ~r1.ok /\ r1.old = nil /\ r1.l = l0
        /\ r2.ok /\ r2.old = tx(100) /\ Stored(r2.l.txs.items) = {tx(110)}

\* C2: in every reachable list, for every tx and bump: with no transaction
\* stored under tx's nonce Add stores tx and returns (true, nil); with old
\* stored it stores tx in old's place and returns (true, old) exactly when
\* tx.gasPrice > old.gasPrice and tx.gasPrice >= old.gasPrice * (100 + bump)
\* / 100 rounded down, and else returns (false, nil) and leaves the whole
\* list as it was.  The example holds.
C2_AddContract ==
    /\ C2_Example
    /\ \A tx \in AddTxs, bump \in PriceBumps :
        LET old == Lookup(items, tx.nonce)
            r   == txList_Add(theList, tx, bump)
        IN  IF old = nil
            THEN /\ r.ok /\ r.old = nil
                 /\ DOMAIN r.l.txs.items = DOMAIN items \cup {tx.nonce}
                 /\ \A k \in DOMAIN items : r.l.txs.items[k] = items[k]
                 /\ r.l.txs.items[tx.nonce] = tx
            ELSE IF /\ tx.gasPrice > old.gasPrice
                    /\ (tx.gasPrice + 1) * 100 > old.gasPrice * (100 + bump)
            THEN /\ r.ok /\ r.old = old
                 /\ r.l.txs.items = [items EXCEPT ![tx.nonce] = tx]
            ELSE ~r.ok /\ r.old = nil /\ r.l = theList

\* C2's case: an Add has been turned down by a stored transaction.
C2_Witness ==
    /\ call.op = "Add"
    /\ ~call.ok
    /\ call.tx = nil
    /\ \E k \in DOMAIN items : items[k].gasPrice = 100

\* The example of C7: strict {1, 2, 3, 4}, only tx3 over the gas limit.
C7_Example ==
    LET tx(n) == IF n = 3 THEN Tx(3, 1, 1000000000, 1000000000, 0)
                 ELSE Tx(n, 1, 100, 100, 0)
        l0 == ListOf(TRUE, <<tx(1), tx(2), tx(3), tx(4)>>, 10)
    IN  \A r \in txList_Filter(l0, 2000000000, 1000000) :
            /\ r.removed = {tx(3)}
            /\ r.invalids = {tx(4)}
            /\ Stored(r.l.txs.items) = {tx(1), tx(2)}

\* C7: in every reachable list, a Remove that finds its nonce k and a
\* Filter that removes something return as invalidated, when the list is
\* strict, exactly the other stored transactions above k (above the lowest
\* removed nonce), and leave exactly the stored transactions below it, as
\* they were; when the list is not strict they invalidate nothing.  The
\* example holds.
C7_StrictInvalidation ==
    /\ C7_Example
    /\ \A tx \in ListTxs : \A r \in txList_Remove(theList, tx) :
          r.ok =>
            IF strict
            THEN /\ r.invalids = {t \in Stored(items) : t.nonce > tx.nonce}
                 /\ r.l.txs.items = Restrict(items, {k \in DOMAIN items : k < tx.nonce})
            ELSE /\ r.invalids = {}
                 /\ r.l.txs.items = Restrict(items, DOMAIN items \ {tx.nonce})
    /\ \A c \in CostLimits, g \in GasLimits : \A r \in txList_Filter(theList, c, g) :
          IF strict /\ r.removed # {}
          THEN LET lowest == Min({t.nonce : t \in r.removed})
               IN  /\ r.invalids = {t \in Stored(items) \ r.removed : t.nonce > lowest}
                   /\ r.l.txs.items = Restrict(items, {k \in DOMAIN items : k < lowest})
          ELSE /\ r.invalids = {}
               /\ Stored(r.l.txs.items) = Stored(items) \ r.removed

\* C7's case: a Filter of a strict list has removed a transaction,
\* invalidated the ones above it and kept the ones below.
C7_Witness ==
    /\ call.op = "Filter"
    /\ strict
    /\ call.removed # {}
    /\ call.invalids # {}
    /\ DOMAIN items # {}
    /\ \A t \in call.removed \cup call.invalids : \A k \in DOMAIN items : k < t.nonce

\* C8: in every reachable list and for every pair of limits, Filter returns
\* as removed exactly the stored transactions with cost > costLimit or
\* gas > gasLimit, and every transaction it leaves stored is within both.
C8_FilterExact ==
    \A c \in CostLimits, g \in GasLimits : \A r \in txList_Filter(theList, c, g) :
        /\ r.removed = {t \in Stored(items) : t.cost > c \/ t.gas > g}
        /\ \A t \in Stored(r.l.txs.items) : t.cost <= c /\ t.gas <= g

\* C8's case: a Filter has removed transactions over a limit and kept others.
C8_Witness ==
    /\ call.op = "Filter"
    /\ call.removed # {}
    /\ call.invalids = {}
    /\ Stored(items) # {}
    /\ \E t \in call.removed : t.gas > gascap
    /\ \A t \in Stored(items) : t.cost <= costcap /\ t.gas <= gascap
\* C18: in every state reachable by Add, Forward, Filter, Cap, Remove and
\* Ready on a list, every stored transaction costs at most costcap and uses
\* at most gascap of gas.
C18_CapsBound ==
    \A t \in Stored(items) : t.cost <= costcap /\ t.gas <= gascap

\* C18's case: an Add has stored a transaction that raised a cap, next to
\* stored transactions that are below that cap.
C18_Witness ==
    /\ call.op = "Add"
    /\ call.ok
    /\ Cardinality(DOMAIN items) >= 2
    /\ \E t \in Stored(items) : t.cost = costcap
    /\ \E t \in Stored(items) : t.gas = gascap
    /\ \E t \in Stored(items) : t.cost < costcap
    /\ \E t \in Stored(items) : t.gas < gascap

\* C19: in every reachable list and for every pair of limits, a Filter by
\* the limits followed at once by a Filter by the same limits removes and
\* invalidates nothing in the second call and leaves the list as the first
\* call left it.
C19_FilterIdempotent ==
    \A c \in CostLimits, g \in GasLimits :
        \A r1 \in txList_Filter(theList, c, g) :
            \A r2 \in txList_Filter(r1.l, c, g) :
                /\ r2.removed = {}
                /\ r2.invalids = {}
                /\ r2.l = r1.l

\* C19's case: a Filter has followed at once a Filter by the same limits
\* that had removed transactions and kept others.
C19_Witness ==
    /\ call.op = "Filter"
    /\ call.n = 2
    /\ call.removed = {}
    /\ call.invalids = {}
    /\ Stored(items) # {}
    /\ costcap = call.args[1]
    /\ gascap = call.args[2]


\* C23 as stated: in every reachable list, no Filter raises costcap or
\* gascap, whatever its limits; Forward, Cap, Remove and Ready leave both
\* caps as they are; and Add never lowers one.
C23_Original ==
    /\ \A c \in CostLimits, g \in GasLimits : \A r \in txList_Filter(theList, c, g) :
           r.l.costcap <= costcap /\ r.l.gascap <= gascap
    /\ \A threshold \in 0..(MaxListNonce + 1) :
           LET r == txList_Forward(theList, threshold)
           IN  r.l.costcap = costcap /\ r.l.gascap = gascap
    /\ \A threshold \in 0..MaxListNonce :
           LET r == txList_Cap(theList, threshold)
           IN  r.l.costcap = costcap /\ r.l.gascap = gascap
    /\ \A tx \in ListTxs : \A r \in txList_Remove(theList, tx) :
           r.l.costcap = costcap /\ r.l.gascap = gascap
    /\ \A start \in 0..MaxListNonce :
           LET r == txList_Ready(theList, start)
           IN  r.l.costcap = costcap /\ r.l.gascap = gascap
    /\ \A tx \in ListTxs :
           LET r == txList_Add(theList, tx, MaxBump)
           IN  r.l.costcap >= costcap /\ r.l.gascap >= gascap


\* The nonces of S form a range without a gap (the empty set does).
GapFree(S) == \A a \in S, b \in S : \A k \in a..b : k \in S

\* The nonces a list stores.
NoncesOf(l) == DOMAIN l.txs.items

\* C27: a strict list that is added to only at a stored nonce or next to
\* its stored range stores a gap-free range of nonces in every reachable
\* state; and from every such state each Forward, Filter, Cap, Remove and
\* Ready, whatever its arguments, leaves a gap-free range or nothing, as
\* does each such Add.
C27_StrictGapFree ==
    /\ strict
    /\ GapFree(DOMAIN items)
    /\ \A threshold \in 0..(MaxListNonce + 1) :
           GapFree(NoncesOf(txList_Forward(theList, threshold).l))
    /\ \A c \in CostLimits, g \in GasLimits : \A r \in txList_Filter(theList, c, g) :
           GapFree(NoncesOf(r.l))
    /\ \A threshold \in 0..MaxListNonce :
           GapFree(NoncesOf(txList_Cap(theList, threshold).l))
    /\ \A tx \in ListTxs : \A r \in txList_Remove(theList, tx) :
           GapFree(NoncesOf(r.l))
    /\ \A start \in 0..MaxListNonce :
           GapFree(NoncesOf(txList_Ready(theList, start).l))
    /\ \A tx \in ListTxs :
           ExtendsRange(DOMAIN items, tx.nonce) =>
               GapFree(NoncesOf(txList_Add(theList, tx, MaxBump).l))

\* C27's case: a Remove from the middle of a strict list's range has
\* invalidated the one transaction above it and left the one below.
C27_Witness ==
    /\ strict
    /\ call.op = "Remove"
    /\ call.ok
    /\ Cardinality(call.invalids) = 1
    /\ Cardinality(DOMAIN items) = 1
    /\ \A t \in call.invalids : \A k \in DOMAIN items : t.nonce = k + 2


\* ---------------------------------------------------- claims: txPricedList

\* The number of the entries of s that are x.
Occurrences(s, x) == Cardinality({i \in 1..Len(s) : s[i] = x})

\* a comes before b in heap order: h.Less on the two.
PriceBefore(a, b) == priceHeap_Less(<<a, b>>, 0, 1)

\* t is in the pool's map and not of a local account.
LiveRemote(local, t) == t \in all /\ ~containsTx(local, t)

\* C3: in every reachable state of the price heap, whatever threshold,
\* count and local set Cap or Discard is called with, no returned
\* transaction is local, and every local transaction of the pool's map is in
\* the heap after the call as often as it was before.
C3_LocalsProtected ==
    \A local \in SUBSET PricedAccounts :
        /\ \A threshold \in Thresholds :
               LET r == txPricedList_Cap(thePriced, threshold, local)
               IN  /\ \A i \in 1..Len(r.drop) : ~containsTx(local, r.drop[i])
                   /\ \A t \in all : containsTx(local, t) =>
                          Occurrences(r.p.items, t) = Occurrences(priced, t)
        /\ \A count \in 0..MaxCount :
               LET r == txPricedList_Discard(thePriced, count, local)
               IN  /\ \A i \in 1..Len(r.drop) : ~containsTx(local, r.drop[i])
                   /\ \A t \in all : containsTx(local, t) =>
                          Occurrences(r.p.items, t) = Occurrences(priced, t)

\* Cap has returned a transaction while a cheaper transaction of the pool's
\* map is in the heap still: one it saved because it is local.
C3_Witness ==
    /\ call.op = "Cap" /\ call.ret # <<>>
    /\ \E i \in 1..Len(priced), j \in 1..Len(call.ret) :
           priced[i] \in all /\ priced[i].gasPrice < call.ret[j].gasPrice

\* Put of every transaction of s, in order.
RECURSIVE PutAll(_, _)
PutAll(p, s) ==
    IF s = <<>> THEN p ELSE PutAll(txPricedList_Put(p, Head(s)), Tail(s))

\* The example of C4: five remote transactions at the prices 10 to 50 and a
\* local one at 5, put in any order; Discard(3) returns the remote ones at
\* 10, 20 and 30.
ExampleRemotes == {Tx(n, 10 * n, 21000, 210000 * n, 2) : n \in 1..5}
ExampleLocal == Tx(1, 5, 21000, 105000, 1)

C4_Example ==
    \A s \in Perms(ExampleRemotes \cup {ExampleLocal}) :
        LET p == PutAll(newTxPricedList(ExampleRemotes \cup {ExampleLocal}), s)
            r == txPricedList_Discard(p, 3, {1})
        IN  /\ [i \in 1..Len(r.drop) |-> r.drop[i].gasPrice] = <<10, 20, 30>>
            /\ Range(r.drop) \subseteq ExampleRemotes
            /\ Range(r.p.items) = {ExampleLocal} \cup {t \in ExampleRemotes : t.gasPrice > 30}

\* C4: in every reachable state of the price heap, Discard(count, local)
\* returns min(count, R) transactions, R the number of the heap entries that
\* are in the pool's map and not local; each is in the map and not local;
\* they come in heap order, no live remote entry left in the heap comes
\* before one of them, and they and the live remote entries left are the
\* live remote entries there were.  The example holds.
C4_DiscardLowest ==
    /\ C4_Example
    /\ \A count \in 0..MaxCount, local \in SUBSET PricedAccounts :
           LET r == txPricedList_Discard(thePriced, count, local)
               R == Cardinality({i \in 1..Len(priced) : LiveRemote(local, priced[i])})
           IN  /\ Len(r.drop) = IF count < R THEN count ELSE R
               /\ \A i \in 1..Len(r.drop) : LiveRemote(local, r.drop[i])
               /\ \A i, j \in 1..Len(r.drop) :
                      i < j => ~PriceBefore(r.drop[j], r.drop[i])
               /\ \A i \in 1..Len(r.drop), k \in 1..Len(r.p.items) :
                      LiveRemote(local, r.p.items[k]) =>
                          ~PriceBefore(r.p.items[k], r.drop[i])
               /\ \A t \in all : ~containsTx(local, t) =>
                      Occurrences(priced, t)
                          = Occurrences(r.drop, t) + Occurrences(r.p.items, t)

\* Discard(2) has returned two transactions and has left in the heap a
\* transaction of the pool's map that comes before them: a local one.
C4_Witness ==
    /\ call.op = "Discard" /\ call.n = 2 /\ Len(call.ret) = 2
    /\ \E i \in 1..Len(priced) :
           priced[i] \in all /\ PriceBefore(priced[i], call.ret[1])
\* C14: in every reachable state of the price heap, whatever threshold and
\* local set Cap is called with, it returns exactly the heap's entries that
\* are in the pool's map, not local and priced below the threshold, each as
\* often as the heap held it and nothing else; and every transaction of the
\* pool's map that is local or priced at or above the threshold is in the
\* heap after the call as often as before.
C14_CapExact ==
    \A local \in SUBSET PricedAccounts, threshold \in Thresholds :
        LET r == txPricedList_Cap(thePriced, threshold, local)
        IN  /\ \A t \in PricedTxs :
                   Occurrences(r.drop, t) =
                       IF LiveRemote(local, t) /\ t.gasPrice < threshold
                       THEN Occurrences(priced, t) ELSE 0
            /\ Range(r.drop) \subseteq PricedTxs
            /\ \A i \in 1..Len(r.drop) : r.drop[i].gasPrice < threshold
            /\ \A t \in all : containsTx(local, t) \/ t.gasPrice >= threshold =>
                   Occurrences(r.p.items, t) = Occurrences(priced, t)

\* C14's case: Cap has returned the first account's cheaper transaction and
\* has left its dearer one, of the pool's map, in the heap: the account is
\* not local, the threshold lies between the two prices.
C14_Witness ==
    /\ call.op = "Cap"
    /\ PricedTx(1, 10) \in Range(call.ret)
    /\ PricedTx(1, 10) \notin Range(priced)
    /\ PricedTx(1, 20) \in all
    /\ PricedTx(1, 20) \in Range(priced)

\* The positions of the heap h that hold transactions of the map al.
LiveAt(h, al) == {i \in 1..Len(h) : h[i] \in al}

\* C15: in every reachable state of the price heap and for every
\* transaction and local set, Underpriced answers false for a local
\* transaction and leaves the list alone; for a remote one it answers false
\* when the heap holds no transaction of the pool's map, and otherwise
\* answers true exactly when the cheapest such entry is priced at or above
\* the transaction, an equal price included.  It only discards entries
\* that are not in the pool's map: every transaction of the map is in the
\* heap after the call as often as before, and then heads the heap.
C15_UnderpricedExact ==
    \A tx \in PricedTxs, local \in SUBSET PricedAccounts :
        LET r == txPricedList_Underpriced(thePriced, tx, local)
            live == LiveAt(priced, all)
        IN  /\ containsTx(local, tx) => ~r.ok /\ r.p = thePriced
            /\ ~containsTx(local, tx) =>
                   /\ live = {} => ~r.ok /\ r.p.items = <<>>
                   /\ live # {} =>
                          /\ r.ok = (\A i \in live : priced[i].gasPrice >= tx.gasPrice)
                          /\ At(r.p.items, 0) \in all
                   /\ r.p.stales = stales - (Len(priced) - Len(r.p.items))
            /\ \A t \in all : Occurrences(r.p.items, t) = Occurrences(priced, t)
            /\ \A t \in PricedTxs : Occurrences(r.p.items, t) <= Occurrences(priced, t)

\* C15's case: Underpriced has discarded an entry and has answered true by
\* the cheapest transaction of the pool's map, which heads the heap.
C15_Witness ==
    /\ call.op = "Underpriced"
    /\ call.ok
    /\ call.n >= 1
    /\ priced # <<>>
    /\ At(priced, 0) \in all

\* The number of heap entries whose transaction is not in the pool's map.
StaleEntries == Cardinality({i \in 1..Len(priced) : priced[i] \notin all})

\* C20 as stated: when the pool puts each transaction into the heap once as
\* it enters the map and calls Removed once for each transaction that
\* leaves the map, those returned by Cap and Discard included, then after
\* every call of the pool stales is at most the length of the heap and is
\* exactly the number of heap entries that are not in the map.
C20_Original ==
    /\ stales <= Len(priced)
    /\ stales = StaleEntries


\* stales is within a quarter of the heap of p.
WithinQuarter(p) == p.stales <= Len(p.items) \div 4

\* C21 as stated: in the disciplined pool, after every Put, Removed, Cap,
\* Underpriced and Discard, stales is at most a quarter of the heap's
\* length (a Removed that rebuilt leaves stales 0, which is within it).
C21_Original ==
    /\ \A tx \in PoolTxs \ all :
           WithinQuarter(txPricedList_Put(PricedList(all \cup {tx}, priced, stales), tx))
    /\ \A p \in txPricedList_Removed(thePriced) : WithinQuarter(p)
    /\ \A local \in PoolLocals :
           /\ \A threshold \in Thresholds :
                  WithinQuarter(txPricedList_Cap(thePriced, threshold, local).p)
           /\ \A tx \in PoolTxs \ all :
                  WithinQuarter(txPricedList_Underpriced(thePriced, tx, local).p)
           /\ \A count \in 1..MaxCount :
                  WithinQuarter(txPricedList_Discard(thePriced, count, local).p)

\* C21, corrected: in the disciplined pool, stales is at most a quarter of
\* the heap's length after every Put, every Removed (rebuilding or not) and
\* every Underpriced, and after every call of the pool, the Removed calls
\* that follow a Cap or a Discard included.
C21_StaleBound ==
    /\ WithinQuarter(thePriced)
    /\ \A tx \in PoolTxs \ all :
           WithinQuarter(txPricedList_Put(PricedList(all \cup {tx}, priced, stales), tx))
    /\ \A p \in txPricedList_Removed(thePriced) :
           WithinQuarter(p) /\ (p.stales = 0 \/ p.items = priced)
    /\ \A tx \in all : \A p \in RemoveEach(thePriced, <<tx>>) : WithinQuarter(p)
    /\ \A local \in PoolLocals, tx \in PoolTxs \ all :
           WithinQuarter(txPricedList_Underpriced(thePriced, tx, local).p)

\* C21's case: a Removed has counted a transaction that left the map
\* without rebuilding the heap of four, where one stale entry is the most
\* the bound allows.
C21_Witness ==
    /\ call.op = "Pool.removeTx"
    /\ stales = 1
    /\ Len(priced) = 4
    /\ Cardinality({i \in 1..Len(priced) : priced[i] \notin all}) = 1


\* Removed, k times over, from the list p: the lists that can result.
RECURSIVE RemovedTimes(_, _)
RemovedTimes(p, k) ==
    IF k = 0 THEN {p}
    ELSE UNION {txPricedList_Removed(q) : q \in RemovedTimes(p, k - 1)}

\* The example of C24: a heap of twenty entries, of which the pool's map
\* holds three still; five calls of Removed count and leave the heap, the
\* sixth replaces it by the three and resets the counter.
Twenty == [n \in 1..20 |-> Tx(n, 10 * n, 21000, 210000 * n, 2)]
C24_Example ==
    LET p0 == PutAll(newTxPricedList({Twenty[5], Twenty[10], Twenty[15]}), Twenty)
    IN  /\ Len(p0.items) = 20
        /\ \A k \in 0..5 : RemovedTimes(p0, k) = {PricedList(p0.all, p0.items, k)}
        /\ \A p \in RemovedTimes(p0, 6) :
               p.stales = 0 /\ Len(p.items) = 3 /\ Range(p.items) = p0.all

C25_NeverNegative ==
    /\ stales >= StaleEntries
    /\ stales >= 0
    /\ \A local \in PoolLocals :
           /\ \A threshold \in Thresholds :
                  txPricedList_Cap(thePriced, threshold, local).p.stales >= 0
           /\ \A count \in 1..MaxCount :
                  txPricedList_Discard(thePriced, count, local).p.stales >= 0
           /\ \A tx \in PoolTxs \ all :
                  txPricedList_Underpriced(thePriced, tx, local).p.stales >= 0
    /\ \A tx \in all : \A p \in RemoveEach(thePriced, <<tx>>) : p.stales >= 0

\* C25's case: Underpriced has discarded the entry of a transaction that
\* had left the map and been counted, and the counter is back at 0.
C25_Witness ==
    /\ call.op = "Pool.Underpriced"
    /\ call.n = 1
    /\ stales = 0
    /\ Len(priced) >= 3
    /\ Range(priced) \subseteq all


\* ------------------------------------------------------- claims: txJournal

\* The transactions of the batches, in the order add got them.
RECURSIVE Flat(_)
Flat(batches) == IF batches = <<>> THEN <<>> ELSE Head(batches) \o Flat(Tail(batches))

\* s and t hold the same transactions, each as often.
SameBag(s, t) ==
    /\ Len(s) = Len(t)
    /\ \A x \in Range(s) \cup Range(t) : Occurrences(s, x) = Occurrences(t, x)

\* C5: when rotate has returned nil, a load of the same journal or of a new
\* journal for the path, whose os.Open succeeds, hands add the transactions
\* rotate was called with, each as often, in batches that are not empty,
\* and returns nil; and a load that followed such a rotate has done so.
C5_RoundTrip ==
    /\ call.op = "rotate" /\ call.ok =>
           \A w \in {writer, newTxJournal.writer} :
               LET r == txJournal_load(fs, w, FALSE)
               IN  /\ r.err = "nil"
                   /\ SameBag(Flat(r.added), call.ret)
                   /\ \A i \in 1..Len(r.added) : r.added[i] # <<>>
    /\ call.op = "load" /\ call.n = 1 /\ call.at # "Open" =>
           call.ok /\ SameBag(Flat(call.added), call.ret)

\* A load after a rotate of three transactions of two accounts has handed
\* them to add in two batches.
C5_Witness ==
    /\ call.op = "load" /\ call.n = 1 /\ call.ok
    /\ Len(call.added) = 2 /\ Len(call.ret) = 3
    /\ {t.from : t \in Range(call.ret)} = {1, 2}
    /\ SameBag(Flat(call.added), call.ret)

\* rotate is at a statement before the rename.
BeforeRename == pc \in {"Close", "OpenFile", "Encode"}

\* C6: no step of rotate but the rename changes the file at journal.path,
\* be it a statement, an error return or a stop of the process, so before
\* the rename the file is the one rotate found; once the rename is done the
\* file holds the records of all the transactions rotate was called with,
\* and holds them still after an error return or a stop.
C6_CrashConsistent ==
    /\ [][(pc # "idle" \/ pc' # "idle") /\ pc' # "Reopen" => fs'[Path] = fs[Path]]_vars
    /\ [](pc = "Reopen" => fs[Path] = File(EncodeAll(contents)))
    /\ [](call.op \in {"rotate", "crash"} /\ call.at \in {"Reopen", "return"} =>
              fs[Path] = File(EncodeAll(call.ret)))

\* The process has stopped while rotate was writing a record: the
\* replacement ends inside a record, and the file at journal.path is the
\* journal of an earlier rotate.
C6_Witness ==
    /\ call.op = "crash" /\ call.at = "Encode"
    /\ fs[NewPath].exists /\ LoadLoop(fs, 0, <<>>, <<>>, <<>>).failure = "nil"
    /\ fs[Path].exists /\ fs[Path].data # <<>>
    /\ rlp_Decode(fs[NewPath].data).err = "error"

\* C22 as stated: a journal has no writer when created, and after a load
\* that returned nil an insert appends the record of its transaction to the
\* journal and does not fail with errNoActiveJournal.
C22_Original ==
    /\ newTxJournal.writer = NilWriter
    /\ \A openFails \in BOOLEAN :
           LET r == txJournal_load(fs, writer, openFails)
           IN  r.err = "nil" =>
                   \A tx \in JournalTxs :
                       LET i == txJournal_insert(r.fs, r.writer, tx)
                       IN  /\ i.err # "errNoActiveJournal"
                           /\ i.fs[Path].data = r.fs[Path].data \o rlp_Encode(tx)

\* C22, corrected: a journal has no writer when created.  A load that
\* opened the file leaves the journal without a writer when it returns; a
\* load that found no file or could not open it leaves the writer as it
\* was.  In every reachable state the journal has no writer after a load
\* that returned nil, and an insert that follows it fails with
\* errNoActiveJournal and leaves the files as they were.
C22_IdleAfterLoad ==
    /\ newTxJournal.writer = NilWriter
    /\ \A openFails \in BOOLEAN :
           LET r == txJournal_load(fs, writer, openFails)
           IN  /\ r.writer = IF fs[Path].exists /\ ~openFails THEN NilWriter ELSE writer
               /\ r.err = "nil" =>
                      /\ r.writer = NilWriter
                      /\ \A tx \in JournalTxs :
                             txJournal_insert(r.fs, r.writer, tx) =
                                 [fs |-> r.fs, err |-> "errNoActiveJournal"]
    /\ call.op = "load" /\ call.ok => writer = NilWriter
    /\ call.op = "insert" /\ call.n = 1 => ~call.ok /\ call.at = "errNoActiveJournal"

\* C22's case: an insert has followed a load that replayed a journal and
\* returned nil, and has failed for want of a writer.
C22_Witness ==
    /\ call.op = "insert"
    /\ call.n = 1
    /\ call.at = "errNoActiveJournal"
    /\ fs[Path].exists
    /\ fs[Path].data # <<>>

\* C26: in every reachable state, whatever writer the journal has, a load
\* that replays the file leaves every file as it was, and each insert the
\* add callback issues, one for every transaction handed to it, returns
\* nil; an insert with the devNull writer returns nil and writes nothing.
C26_ReplayDiscards ==
    /\ \A openFails \in BOOLEAN :
           LET r == txJournal_load(fs, writer, openFails)
           IN  /\ r.fs = fs
               /\ Len(r.errs) = Len(Flat(r.added))
               /\ \A i \in 1..Len(r.errs) : r.errs[i] = "nil"
    /\ \A tx \in JournalTxs :
           txJournal_insert(fs, DevNull, tx) = [fs |-> fs, err |-> "nil"]
    /\ call.op = "load" =>
           /\ Len(call.errs) = Len(Flat(call.added))
           /\ \A i \in 1..Len(call.errs) : call.errs[i] = "nil"

\* C26's case: a load has replayed a journal of two transactions while the
\* journal was open for append: the callback's two inserts returned nil
\* and the file holds the two records still, no more.
C26_Witness ==
    /\ call.op = "load"
    /\ call.n = 1
    /\ Len(call.errs) = 2
    /\ call.errs[1] = "nil" /\ call.errs[2] = "nil"
    /\ fs[Path].data = EncodeAll(Flat(call.added))

=============================================================================
